---- MODULE Spec2Model ----
(***************************************************************************)
(* State-machine model of the three exchange plugins:                      *)
(*   src/rate/nomics.js      (rate plugin, fetchRates)                     *)
(*   src/swap/sideshift.js   (swap plugin, fetchSwapQuote)                 *)
(*   src/swap/coinswitch.js  (swap plugin, fetchSwapQuote / getFixedQuote  *)
(*                            / getEstimate)                               *)
(* Every async function is cut at its awaits: one action consumes the      *)
(* reply the function is suspended on, runs the synchronous code up to the *)
(* next await and issues the request made there.  Replies of the network   *)
(* and of the wallets are chosen by the environment (\E).                  *)
(***************************************************************************)
EXTENDS Integers, Sequences, FiniteSets, TLC

VARIABLES
    plugin,      \* which plugin call the host has made: "none" before any call
    nm,          \* nomics fetchRates: locals of the running call
    nmRequests,  \* nomics: the requests handed to fetchCors, in order
    nmWarnings,  \* nomics: the pairs log.warn was called for, in order
    ss,          \* sideshift fetchSwapQuote: locals of the running call
    ssSent,      \* sideshift: the calls made to the api and to the wallets, in order
    request,     \* the EdgeSwapRequest of the running swap call
    fsq,         \* coinswitch fetchSwapQuote: position and outcome
    fx,          \* coinswitch getFixedQuote: locals of the running call
    es           \* coinswitch getEstimate: locals of the running call

vars == <<plugin, nm, nmRequests, nmWarnings, ss, ssSent, request, fsq, fx, es>>

nmVars == <<nm, nmRequests, nmWarnings>>
ssVars == <<ss, ssSent>>
csVars == <<fsq, fx, es>>

\* ------------------------------------------------------------------ bounds
\* longest pairsHint list handed to fetchRates
MaxPairs == 2
\* largest native amount of a swap request
MaxNative == 3

\* JavaScript's undefined and null
Undefined == "undefined"
Null == "null"

\* ------------------------------------------------------------------ strings
\* A currency code of the rate plugin is a sequence of tokens; ":" is a token
\* of its own, so 'iso:USD' is <<"iso", ":", "USD">>.
BTC == <<"BTC">>
isoUSD == <<"iso", ":", "USD">>
isoEUR == <<"iso", ":", "EUR">>
RateCodes == {BTC, isoUSD, isoEUR}

\* String.prototype.indexOf: the least 0-based position where pat occurs, or -1
IndexOf(s, pat) ==
    LET hits == {i \in 1..(Len(s) - Len(pat) + 1) :
                    SubSeq(s, i, i + Len(pat) - 1) = pat}
    IN IF hits = {} THEN -1
       ELSE (CHOOSE i \in hits : \A j \in hits : i <= j) - 1

\* String.prototype.split(sep) for a one-token separator: the segments between
\* the separators, in order
RECURSIVE Split(_, _)
Split(s, sep) ==
    LET at == {i \in 1..Len(s) : s[i] = sep}
    IN IF at = {} THEN <<s>>
       ELSE LET i == CHOOSE k \in at : \A j \in at : k <= j
            IN <<SubSeq(s, 1, i - 1)>> \o Split(SubSeq(s, i + 1, Len(s)), sep)

\* the text a template literal writes for `${a[k]}`, a 0-based read of an array
\* of strings: the element, or the word undefined when k is out of range
Interpolate(a, k) == IF k + 1 \in DOMAIN a THEN a[k + 1] ELSE <<"undefined">>

\* ------------------------------------------------------------------ nomics
checkIfFiat(code) == IndexOf(code, <<"iso", ":">>) >= 0

\* SkipPair without its second disjunct: a crypto/crypto pair is not skipped
SkipPair_OnlyBothFiat(pair) ==
    checkIfFiat(pair.fromCurrency) /\ checkIfFiat(pair.toCurrency)

\* the loop's skip test: both codes fiat, or both crypto
SkipPair(pair) ==
    \/ (checkIfFiat(pair.fromCurrency) /\ checkIfFiat(pair.toCurrency))
    \/ (~checkIfFiat(pair.fromCurrency) /\ ~checkIfFiat(pair.toCurrency))

\* the ticker request built for a pair
TickerRequest(pair) ==
    LET fiatCode == Split(pair.toCurrency, ":")
    IN [ids |-> pair.fromCurrency, convert |-> Interpolate(fiatCode, 1)]

\* the for-loop run from position i up to its next await: the first pair at or
\* after i that is not skipped, or Len + 1 when the loop ends
RECURSIVE NextFetch(_, _)
NextFetch(hint, i) ==
    IF i > Len(hint) THEN i
    ELSE IF SkipPair(hint[i]) THEN NextFetch(hint, i + 1)
    ELSE i

\* price strings the ticker may carry, and Number() of each
PriceStrings == {"1", "abc"}
NaN == "NaN"
Number(str) == IF str = "1" THEN "1" ELSE NaN

\* the JSON bodies a reply may hold: no JSON at all, a non-array, or an array
\* of objects whose price is a string, or is missing or no string (NoString)
NoString == "#nostring"
NomicsElems == [price : PriceStrings \cup {NoString}]
NomicsBodies ==
    {[kind |-> "unparseable", elems |-> <<>>], [kind |-> "object", elems |-> <<>>],
     [kind |-> "array", elems |-> <<>>]}
        \cup {[kind |-> "array", elems |-> <<e>>] : e \in NomicsElems}

\* reply.json() fulfils
JsonOk(body) == body.kind # "unparseable"

\* asArray(asObject({price: asString})): TRUE when the cleaner accepts
asNomicsResponseOk(json) ==
    /\ json.kind = "array"
    /\ \A k \in DOMAIN json.elems : json.elems[k].price \in PriceStrings

\* what fetchCors settles with: a rejection, or a reply with a status and a body
NomicsReplies ==
    {[rejected |-> TRUE, status |-> 0, body |-> [kind |-> "unparseable", elems |-> <<>>]]}
        \cup [rejected : {FALSE}, status : {200, 429}, body : NomicsBodies]

\* lines 48-50 succeed: not rejected, json() parses, the cleaner accepts and
\* element 0 exists
RateOk(reply) ==
    /\ ~reply.rejected
    /\ JsonOk(reply.body)
    /\ asNomicsResponseOk(reply.body)
    /\ Len(reply.body.elems) >= 1

\* line 48: the reply is a rate-limit reply
Is429(reply) == ~reply.rejected /\ reply.status = 429

\* the try block of one iteration (lines 45-55): "continue" at line 48, "push"
\* when line 51 is reached, "throw" when any line before it throws
TryBody(reply) ==
    IF reply.rejected THEN "throw"
    ELSE IF Is429(reply) THEN "continue"
    ELSE IF RateOk(reply) THEN "push"
    ELSE "throw"

\* Iteration without the catch block: a throw leaves fetchRates
Iteration_NoCatch(reply) ==
    LET body == TryBody(reply)
    IN [push |-> body = "push", warn |-> FALSE, rethrow |-> body = "throw"]

\* the try/catch of one iteration: the catch block turns every throw into a
\* warning
Iteration(reply) ==
    LET body == TryBody(reply)
    IN [push |-> body = "push", warn |-> body = "throw", rethrow |-> FALSE]

NmIdle == [pc |-> "idle", pairsHint |-> <<>>, i |-> 0, pairs |-> <<>>, result |-> "none",
           replies |-> <<>>]

\* positions of the loop: issue the fetch for the pair at position j, or return
NmAdvance(hint, j, out, replies) ==
    IF j > Len(hint)
    THEN [pc |-> "done", pairsHint |-> hint, i |-> j, pairs |-> out, result |-> "returned",
          replies |-> replies]
    ELSE [pc |-> "fetch", pairsHint |-> hint, i |-> j, pairs |-> out, result |-> "none",
          replies |-> replies]

NmIssued(hint, j) ==
    IF j > Len(hint) THEN <<>>
    ELSE <<[index |-> j, req |-> TickerRequest(hint[j])]>>

PairSet == [fromCurrency : RateCodes, toCurrency : RateCodes]

RECURSIVE SeqsUpTo(_, _)
SeqsUpTo(S, n) ==
    IF n = 0 THEN {<<>>}
    ELSE LET shorter == SeqsUpTo(S, n - 1)
         IN shorter \cup {Append(s, x) : s \in {t \in shorter : Len(t) = n - 1}, x \in S}

\* fetchRates(pairsHint) is called: runs to the first fetch, or returns
NomicsFetchRates ==
    /\ plugin = "none"
    /\ \E hint \in SeqsUpTo(PairSet, MaxPairs) :
          LET j == NextFetch(hint, 1)
          IN /\ nm' = NmAdvance(hint, j, <<>>, <<>>)
             /\ nmRequests' = NmIssued(hint, j)
    /\ plugin' = "nomics"
    /\ nmWarnings' = <<>>
    /\ UNCHANGED <<ssVars, csVars, request>>

\* the awaited fetchCors settles: the rest of the loop body, then on to the
\* next fetch or the return
NomicsReply ==
    /\ plugin = "nomics"
    /\ nm.pc = "fetch"
    /\ \E reply \in NomicsReplies :
          LET pair == nm.pairsHint[nm.i]
              j == NextFetch(nm.pairsHint, nm.i + 1)
              it == Iteration(reply)
              out == IF it.push
                     THEN Append(nm.pairs,
                                 [fromCurrency |-> pair.fromCurrency,
                                  toCurrency |-> pair.toCurrency,
                                  rate |-> Number(reply.body.elems[1].price)])
                     ELSE nm.pairs
              replies == Append(nm.replies, [index |-> nm.i, reply |-> reply])
          IN IF it.rethrow
             THEN /\ nm' = [nm EXCEPT !.pc = "done", !.result = "threw", !.replies = replies]
                  /\ UNCHANGED <<nmRequests, nmWarnings>>
             ELSE /\ nm' = NmAdvance(nm.pairsHint, j, out, replies)
                  /\ nmRequests' = nmRequests \o NmIssued(nm.pairsHint, j)
                  /\ nmWarnings' = IF it.warn THEN Append(nmWarnings, nm.i) ELSE nmWarnings
    /\ UNCHANGED <<plugin, ssVars, csVars, request>>

\* ------------------------------------------------------------------ wallets
\* Currency codes of swap requests.
SwapCodes == {"BTC", "ETH", "USDT", "DGB"}

\* String.prototype.toLowerCase / toUpperCase on the codes in use
toLowerCase(code) ==
    CASE code = "BTC" -> "btc"
      [] code = "ETH" -> "eth"
      [] code = "USDT" -> "usdt"
      [] code = "DGB" -> "dgb"
      [] OTHER -> code

toUpperCase(code) ==
    CASE code = "btc" -> "BTC"
      [] code = "eth" -> "ETH"
      [] code = "usdt" -> "USDT"
      [] code = "dgb" -> "DGB"
      [] OTHER -> code

\* Denominated amounts (decimal strings in the code) are fixed-point numbers
\* counted in 1/DenomScale of a coin.
DenomScale == 2 * 2

\* native units per coin of each currency
Multiplier == [c \in SwapCodes |->
    CASE c = "BTC" -> 2 [] c = "ETH" -> 4 [] c = "USDT" -> 1 [] c = "DGB" -> 2]

\* The wallet holding a currency: ETH wallets also hold the USDT token.
WalletOf(code) ==
    [id |-> IF code = "USDT" THEN "ETH" ELSE code,
     currencyCodes |-> IF code \in {"ETH", "USDT"} THEN {"ETH", "USDT"} ELSE {code}]

\* the multiplier a wallet uses for a code: the currency's when the wallet
\* holds it; for a code the wallet does not hold the host's wallet falls back
\* to 1
WalletMultiplier(wallet, code) ==
    IF code \in wallet.currencyCodes THEN Multiplier[code] ELSE 1

\* wallet.nativeToDenomination(nativeAmount, currencyCode)
nativeToDenomination(wallet, nativeAmount, code) ==
    (nativeAmount * DenomScale) \div WalletMultiplier(wallet, code)

\* wallet.denominationToNative(denominatedAmount, currencyCode)
denominationToNative(wallet, amount, code) ==
    (amount * WalletMultiplier(wallet, code)) \div DenomScale

\* what wallet.getReceiveAddress fulfils with, by currency: every wallet has a
\* publicAddress, bitcoin-like ones a legacyAddress, BTC a segwitAddress too
AddressInfo(code) ==
    [publicAddress |-> <<code, "public">>,
     segwitAddress |-> IF code = "BTC" THEN <<code, "segwit">> ELSE <<Undefined>>,
     legacyAddress |-> IF code \in {"BTC", "DGB"} THEN <<code, "legacy">> ELSE <<Undefined>>]

\* the swap requests of the model
Requests ==
    {r \in [fromCurrencyCode : SwapCodes, toCurrencyCode : SwapCodes,
            nativeAmount : 1..MaxNative, quoteFor : {"from", "to"}] :
        r.fromCurrencyCode # r.toCurrencyCode}

fromWallet(req) == WalletOf(req.fromCurrencyCode)
toWallet(req) == WalletOf(req.toCurrencyCode)

\* ------------------------------------------------------------------ outcomes
\* The outcome of an async function: pending, fulfilled with a quote, or
\* rejected with an error (its class, the native amount a limit error carries,
\* the text a generic error carries).
NoQuote == [fromNativeAmount |-> 0, toNativeAmount |-> 0, destinationAddress |-> <<Undefined>>,
            pluginId |-> "", isEstimate |-> FALSE, expirationDate |-> "", quoteId |-> ""]
Pending == [kind |-> "pending", error |-> "", amount |-> 0, text |-> "", quote |-> NoQuote]
Rejected(class, amount, text) ==
    [kind |-> "rejected", error |-> class, amount |-> amount, text |-> text, quote |-> NoQuote]
Fulfilled(quote) ==
    [kind |-> "fulfilled", error |-> "", amount |-> 0, text |-> "", quote |-> quote]

\* makeSwapPluginQuote(request, fromNativeAmount, toNativeAmount, tx,
\* destinationAddress, pluginId, isEstimate, expirationDate, quoteId)
makeSwapPluginQuote(req, fromNativeAmount, toNativeAmount, tx, destinationAddress, pluginId, isEstimate, expirationDate, quoteId) ==
    [fromNativeAmount |-> fromNativeAmount, toNativeAmount |-> toNativeAmount,
     destinationAddress |-> destinationAddress, pluginId |-> pluginId,
     isEstimate |-> isEstimate, expirationDate |-> expirationDate, quoteId |-> quoteId]

\* what a fetch made through an api helper may settle with: the fetch rejects,
\* the body is no JSON, or the body parses
NetKinds == {"rejected", "unparseable", "json"}

\* ------------------------------------------------------------------ sideshift
CURRENCY_CODE_TRANSCRIPTION == [c \in {"USDT"} |-> "usdtErc20"]

\* SafeCode without the table lookup
SafeCode_LowerOnly(code) == toLowerCase(code)

\* one side of getSafeCurrencyCode: TABLE[code] || code.toLowerCase()
SafeCode(code) ==
    IF code \in DOMAIN CURRENCY_CODE_TRANSCRIPTION
    THEN CURRENCY_CODE_TRANSCRIPTION[code]
    ELSE toLowerCase(code)

getSafeCurrencyCode(req) ==
    [safeFromCurrencyCode |-> SafeCode(req.fromCurrencyCode),
     safeToCurrencyCode |-> SafeCode(req.toCurrencyCode)]

\* sideshift's getAddress: addressInfo.segwitAddress ?? addressInfo.publicAddress
ssGetAddress(code) ==
    LET addressInfo == AddressInfo(code)
    IN IF addressInfo.segwitAddress # <<Undefined>>
       THEN addressInfo.segwitAddress
       ELSE addressInfo.publicAddress

\* JSON values of a boolean field: true, false, or the field is missing
JsonBools == {"true", "false", Undefined}
asBooleanOk(v) == v \in {"true", "false"}

\* bodies of GET /permissions, and the asPermissions cleaner
PermissionBodies == [createOrder : JsonBools, createQuote : JsonBools]
asPermissionsOk(body) == asBooleanOk(body.createOrder) /\ asBooleanOk(body.createQuote)

\* bodies of GET /pairs/a/b: rate, min and max (NoString when missing or no
\* string) and an optional error message ("" when there is no error object)
RateBodies ==
    [rate : {1, 2}, min : {DenomScale, 2 * DenomScale}, max : {2 * DenomScale},
     error : {"", "Invalid pair"}, shape : {"ok"}]
      \cup {[rate |-> 0, min |-> 0, max |-> 0, error |-> "", shape |-> "bad"]}
asRateOk(body) == body.shape = "ok"

\* bodies of POST /quotes: id (Undefined when missing) and an optional error
QuoteErrors == {"", "Amount too low", "Amount too high", "Pair disabled"}
FixedQuoteBodies == [id : {"q1", Undefined}, error : QuoteErrors]
asFixedQuoteOk(body) == body.id # Undefined

\* bodies of POST /orders
OrderBodies ==
    [depositAmount : {DenomScale, 2 * DenomScale}, settleAmount : {DenomScale, 3 * DenomScale},
     shape : {"ok"}]
      \cup {[depositAmount |-> 0, settleAmount |-> 0, shape |-> "bad"]}
asOrderOk(body) == body.shape = "ok"

NoRate == [rate |-> 0, min |-> 0, max |-> 0, error |-> "", shape |-> "none"]
NoOrder == [depositAmount |-> 0, settleAmount |-> 0, shape |-> "none"]

NoPermissions == [createOrder |-> Undefined, createQuote |-> Undefined]

\* line 135 with && for ||
PermissionDenied_Both(permissions) ==
    permissions.createOrder = "false" /\ permissions.createQuote = "false"

\* line 135: order or quote creation is not permitted
PermissionDenied(permissions) ==
    permissions.createOrder = "false" \/ permissions.createQuote = "false"

SsIdle ==
    [pc |-> "idle", result |-> Pending, permissions |-> NoPermissions,
     depositAddress |-> <<Undefined>>, settleAddress |-> <<Undefined>>,
     rate |-> NoRate, quoteError |-> "", order |-> NoOrder,
     amountExpectedFromNative |-> 0, amountExpectedToNative |-> 0,
     depositConvertedBy |-> "", settleConvertedBy |-> ""]

\* the function rejects: nothing more is sent
SsThrow(class, amount, text) ==
    /\ ss' = [ss EXCEPT !.pc = "done", !.result = Rejected(class, amount, text)]
    /\ UNCHANGED ssSent

\* createSideshiftApi's request(): the error it throws for a reply, if any
\* ("" when it returns the parsed body)
ApiError(net) ==
    CASE net = "rejected" -> "FetchRejected"
      [] net = "unparseable" -> "Error"
      [] OTHER -> ""

Sent(op, arg) == [op |-> op, arg |-> arg]

\* fetchSwapQuote(request) is called: up to the await of GET /permissions
SideshiftFetchSwapQuote ==
    /\ plugin = "none"
    /\ \E req \in Requests : request' = req
    /\ plugin' = "sideshift"
    /\ ss' = [SsIdle EXCEPT !.pc = "permissions"]
    /\ ssSent' = <<Sent("GET /permissions", <<>>)>>
    /\ UNCHANGED <<nmVars, csVars>>

\* lines 133-147: the permissions reply, the geo check, then both getAddress
\* calls are started
SideshiftPermissionsReply ==
    /\ plugin = "sideshift"
    /\ ss.pc = "permissions"
    /\ \/ \E net \in NetKinds :
             /\ ApiError(net) # ""
             /\ SsThrow(ApiError(net), 0, "")
       \/ \E body \in PermissionBodies :
          IF ~asPermissionsOk(body) THEN SsThrow("TypeError", 0, "asPermissions")
          ELSE IF PermissionDenied(body)
          THEN /\ ss' = [ss EXCEPT !.pc = "done", !.permissions = body,
                                   !.result = Rejected("SwapPermissionError", 0, "geoRestriction")]
               /\ UNCHANGED ssSent
          ELSE /\ ss' = [ss EXCEPT !.pc = "addresses", !.permissions = body]
               /\ ssSent' = ssSent \o
                    <<Sent("getReceiveAddress", <<fromWallet(request).id, request.fromCurrencyCode>>),
                      Sent("getReceiveAddress", <<toWallet(request).id, request.toCurrencyCode>>)>>
    /\ UNCHANGED <<plugin, nmVars, csVars, request>>

\* lines 144-157: Promise.all of the two addresses settles, the codes are
\* transcribed and the pair's rate is requested
SideshiftAddressesReply ==
    /\ plugin = "sideshift"
    /\ ss.pc = "addresses"
    /\ \E ok \in BOOLEAN :
          IF ~ok THEN SsThrow("WalletRejected", 0, "getReceiveAddress")
          ELSE LET safe == getSafeCurrencyCode(request)
               IN /\ ss' = [ss EXCEPT !.pc = "pairs",
                                      !.depositAddress = ssGetAddress(request.fromCurrencyCode),
                                      !.settleAddress = ssGetAddress(request.toCurrencyCode)]
                  /\ ssSent' = Append(ssSent,
                        Sent("GET /pairs", <<safe.safeFromCurrencyCode, safe.safeToCurrencyCode>>))
    /\ UNCHANGED <<plugin, nmVars, csVars, request>>

\* x / y rounded to the nearest unit, as toFixed rounds
RoundDiv(x, y) == (2 * x + y) \div (2 * y)

\* lines 168-183
DepositAmount(req, rate) ==
    LET quoteAmount ==
            IF req.quoteFor = "from"
            THEN nativeToDenomination(fromWallet(req), req.nativeAmount, req.fromCurrencyCode)
            ELSE nativeToDenomination(toWallet(req), req.nativeAmount, req.toCurrencyCode)
    IN IF req.quoteFor = "from" THEN quoteAmount ELSE RoundDiv(quoteAmount, rate.rate)

\* lines 185-189
FixedQuoteRequest(req, rate) ==
    LET safe == getSafeCurrencyCode(req)
    IN [depositMethod |-> safe.safeFromCurrencyCode,
        settleMethod |-> safe.safeToCurrencyCode,
        depositAmount |-> DepositAmount(req, rate)]

\* lines 153-193: the rate reply, the amount conversion, then the fixed quote
\* is requested
SideshiftPairsReply ==
    /\ plugin = "sideshift"
    /\ ss.pc = "pairs"
    /\ \/ \E net \in NetKinds :
             /\ ApiError(net) # ""
             /\ SsThrow(ApiError(net), 0, "")
       \/ \E body \in RateBodies :
          IF ~asRateOk(body) THEN SsThrow("TypeError", 0, "asRate")
          ELSE IF body.error # "" THEN SsThrow("SwapCurrencyError", 0, "")
          ELSE /\ ss' = [ss EXCEPT !.pc = "quotes", !.rate = body]
               /\ ssSent' = Append(ssSent, Sent("POST /quotes", FixedQuoteRequest(request, body)))
    /\ UNCHANGED <<plugin, nmVars, csVars, request>>

\* checkQuoteError(rate, request, quoteErrorMessage, log): the error it throws,
\* or Pending when it returns
checkQuoteError(rate, req, quoteErrorMessage) ==
    IF quoteErrorMessage = "Amount too low"
    THEN Rejected("SwapBelowLimitError",
                  denominationToNative(fromWallet(req), rate.min, req.fromCurrencyCode), "")
    ELSE IF quoteErrorMessage = "Amount too high"
    THEN Rejected("SwapAboveLimitError",
                  denominationToNative(fromWallet(req), rate.max, req.fromCurrencyCode), "")
    ELSE Pending

\* lines 199-204
OrderRequest(quoteId, settleAddress) ==
    [type |-> "fixed", quoteId |-> quoteId, affiliateId |-> "affiliateId",
     settleAddress |-> settleAddress]

\* lines 191-208: the fixed-quote reply, checkQuoteError, then the order is
\* requested
SideshiftQuoteReply ==
    /\ plugin = "sideshift"
    /\ ss.pc = "quotes"
    /\ \/ \E net \in NetKinds :
             /\ ApiError(net) # ""
             /\ SsThrow(ApiError(net), 0, "")
       \/ \E body \in FixedQuoteBodies :
          IF ~asFixedQuoteOk(body) THEN SsThrow("TypeError", 0, "asFixedQuote")
          ELSE LET thrown == IF body.error # ""
                             THEN checkQuoteError(ss.rate, request, body.error)
                             ELSE Pending
               IN IF thrown.kind = "rejected"
                  THEN /\ ss' = [ss EXCEPT !.pc = "done", !.result = thrown,
                                           !.quoteError = body.error]
                       /\ UNCHANGED ssSent
                  ELSE /\ ss' = [ss EXCEPT !.pc = "orders", !.quoteError = body.error]
                       /\ ssSent' = Append(ssSent,
                             Sent("POST /orders", OrderRequest(body.id, ss.settleAddress)))
    /\ UNCHANGED <<plugin, nmVars, csVars, request>>

\* lines 227-247
SsSpendInfo(req, order, settleAddress, depositAddress) ==
    [currencyCode |-> req.fromCurrencyCode,
     nativeAmount |-> denominationToNative(fromWallet(req), order.depositAmount,
                                           toUpperCase(req.fromCurrencyCode)),
     publicAddress |-> <<"order", "deposit">>,
     networkFeeOption |-> IF toUpperCase(req.fromCurrencyCode) = "BTC" THEN "high" ELSE "standard",
     swapData |-> [orderId |-> "o1x", isEstimate |-> FALSE, payoutAddress |-> settleAddress,
                   payoutCurrencyCode |-> getSafeCurrencyCode(req).safeToCurrencyCode,
                   payoutNativeAmount |-> denominationToNative(fromWallet(req), order.settleAmount,
                                                               req.toCurrencyCode),
                   payoutWalletId |-> toWallet(req).id, refundAddress |-> depositAddress]]

\* lines 206-249: the order reply, the conversions to native amounts, then
\* makeSpend is called
SideshiftOrderReply ==
    /\ plugin = "sideshift"
    /\ ss.pc = "orders"
    /\ \/ \E net \in NetKinds :
             /\ ApiError(net) # ""
             /\ SsThrow(ApiError(net), 0, "")
       \/ \E body \in OrderBodies :
          IF ~asOrderOk(body) THEN SsThrow("TypeError", 0, "asOrder")
          ELSE /\ ss' = [ss EXCEPT
                    !.pc = "makeSpend", !.order = body,
                    !.amountExpectedFromNative =
                        denominationToNative(fromWallet(request), body.depositAmount,
                                             request.fromCurrencyCode),
                    !.amountExpectedToNative =
                        denominationToNative(fromWallet(request), body.settleAmount,
                                             request.toCurrencyCode),
                    \* lines 214 and 220: both conversions are calls on request.fromWallet
                    !.depositConvertedBy = fromWallet(request).id,
                    !.settleConvertedBy = fromWallet(request).id]
               /\ ssSent' = Append(ssSent,
                     Sent("makeSpend", SsSpendInfo(request, body, ss.settleAddress,
                                                   ss.depositAddress)))
    /\ UNCHANGED <<plugin, nmVars, csVars, request>>

\* lines 249-263: makeSpend settles and the quote is packaged
SideshiftMakeSpendReply ==
    /\ plugin = "sideshift"
    /\ ss.pc = "makeSpend"
    /\ \E ok \in BOOLEAN :
          IF ~ok THEN SsThrow("WalletRejected", 0, "makeSpend")
          ELSE /\ ss' = [ss EXCEPT !.pc = "done", !.result =
                    Fulfilled(makeSwapPluginQuote(request, ss.amountExpectedFromNative,
                        ss.amountExpectedToNative, "tx", ss.settleAddress, "sideshift",
                        FALSE, "order.expiresAtISO", "o1"))]
               /\ UNCHANGED ssSent
    /\ UNCHANGED <<plugin, nmVars, csVars, request>>

\* ------------------------------------------------------------------ coinswitch
dontUseLegacy == {"DGB"}

\* coinswitch's getAddress: the legacy address unless the currency is in
\* dontUseLegacy
csGetAddress(code) ==
    LET addressInfo == AddressInfo(code)
    IN IF addressInfo.legacyAddress # <<Undefined>> /\ code \notin dontUseLegacy
       THEN addressInfo.legacyAddress
       ELSE addressInfo.publicAddress

\* the requests the model makes of coinswitch
CsRequests ==
    {r \in Requests : <<r.fromCurrencyCode, r.toCurrencyCode>> \in
        {<<"BTC", "DGB">>, <<"DGB", "BTC">>, <<"ETH", "BTC">>}}

\* what the fetch inside call() may settle with
CsNetKinds == {"rejected", "notOk", "unparseable", "json"}

\* call(json): the error it throws for a reply, if any ("" when it returns the
\* parsed body)
CallError(net) ==
    CASE net = "rejected" -> "FetchRejected"
      [] net = "notOk" -> "Error"
      [] net = "unparseable" -> "SyntaxError"
      [] OTHER -> ""

\* JavaScript's !v on the JSON values of the model
Falsy(v) == v \in {"false", Undefined, Null}

\* JSON bodies of the exchange: the success flag, the error code, the data
\* payload (Undefined or Null when absent, "empty" for an array or object
\* without the wanted entries, "ok" with them) and the numbers data carries
CsPayload(datas, vals) ==
    [success : {"true", "false"}, code : {"E1"}, data : datas, v : vals]

NoVals == [a |-> 0, b |-> 0, rate |-> 0, minerFee |-> 0]
\* v2/fixed/offer: a = depositCoinAmount, b = destinationCoinAmount
OfferBodies ==
    CsPayload({Undefined, "ok"},
              [a : {DenomScale, 2 * DenomScale}, b : {DenomScale}, rate : {0}, minerFee : {0}])
\* v2/fixed/pairs: a = limitMinDepositCoin, b = limitMaxDepositCoin of data[0]
PairsBodies ==
    CsPayload({Undefined, "empty", "ok"},
              [a : {DenomScale \div 2, DenomScale}, b : {DenomScale, 2 * DenomScale},
               rate : {0}, minerFee : {0}])
\* v2/rate: a = limitMinDepositCoin, b = limitMaxDepositCoin
RateReplyBodies ==
    CsPayload({Undefined, "empty", "ok"},
              [a : {DenomScale \div 2, DenomScale}, b : {DenomScale, 2 * DenomScale},
               rate : {1, 2}, minerFee : {1}])
\* v2/fixed/order and v2/order
CsOrderBodies == CsPayload({Undefined, "empty", "ok"}, {NoVals})

\* checkReply with its two tests in the other order
checkReply_SuccessFirst(reply, hasRequest) ==
    IF Falsy(reply.success)
    THEN Rejected("Error", 0, reply.code)
    ELSE IF hasRequest /\ Falsy(reply.data)
    THEN Rejected("SwapCurrencyError", 0, "")
    ELSE Pending

\* checkReply(log, reply, request): the error it throws, or Pending when it
\* returns; hasRequest is request != null
checkReply(reply, hasRequest) ==
    IF hasRequest /\ Falsy(reply.data)
    THEN Rejected("SwapCurrencyError", 0, "")
    ELSE IF Falsy(reply.success)
    THEN Rejected("Error", 0, reply.code)
    ELSE Pending

\* the record kept of the latest checkReply call of a path
NoCheck == [called |-> FALSE, success |-> "", code |-> "", data |-> "",
            hasRequest |-> FALSE, thrown |-> Pending]
Checked(reply, hasRequest) ==
    [called |-> TRUE, success |-> reply.success, code |-> reply.code, data |-> reply.data,
     hasRequest |-> hasRequest, thrown |-> checkReply(reply, hasRequest)]

PathIdle ==
    [pc |-> "idle", result |-> Pending, sent |-> <<>>,
     fromAddress |-> <<Undefined>>, toAddress |-> <<Undefined>>,
     fromAmount |-> 0, fromNativeAmount |-> 0, toNativeAmount |-> 0,
     limitMinDepositCoin |-> 0, limitMaxDepositCoin |-> 0,
     nativeMin |-> 0, nativeMax |-> 0, limitChecked |-> FALSE, checked |-> NoCheck]

\* both getAddress calls of a path, started by Promise.all
AddressCalls(req) ==
    <<Sent("getReceiveAddress", <<fromWallet(req).id, req.fromCurrencyCode>>),
      Sent("getReceiveAddress", <<toWallet(req).id, req.toCurrencyCode>>)>>

\* quoteAmount of both paths
CsQuoteAmount(req) ==
    IF req.quoteFor = "from"
    THEN nativeToDenomination(fromWallet(req), req.nativeAmount, req.fromCurrencyCode)
    ELSE nativeToDenomination(toWallet(req), req.nativeAmount, req.toCurrencyCode)

\* quoteParams of both paths
QuoteParams(req) ==
    [depositCoin |-> toLowerCase(req.fromCurrencyCode),
     destinationCoin |-> toLowerCase(req.toCurrencyCode),
     amountField |-> IF req.quoteFor = "from" THEN "depositCoinAmount"
                     ELSE "destinationCoinAmount",
     amount |-> CsQuoteAmount(req)]

\* LimitError without its first test: an amount below the minimum is let
\* through when it is not above the maximum
LimitError_NoBelow(fromNativeAmount, nativeMin, nativeMax) ==
    IF fromNativeAmount > nativeMax
    THEN Rejected("SwapAboveLimitError", nativeMax, "")
    ELSE Pending

\* LimitError throwing the above-limit error with the minimum
LimitError_AboveCarriesMin(fromNativeAmount, nativeMin, nativeMax) ==
    IF fromNativeAmount < nativeMin
    THEN Rejected("SwapBelowLimitError", nativeMin, "")
    ELSE IF fromNativeAmount > nativeMax
    THEN Rejected("SwapAboveLimitError", nativeMin, "")
    ELSE Pending

\* the limit checks of both paths: the error thrown, or Pending
LimitError(fromNativeAmount, nativeMin, nativeMax) ==
    IF fromNativeAmount < nativeMin
    THEN Rejected("SwapBelowLimitError", nativeMin, "")
    ELSE IF fromNativeAmount > nativeMax
    THEN Rejected("SwapAboveLimitError", nativeMax, "")
    ELSE Pending

\* fetchSwapQuote(request) is called: getFixedQuote and getEstimate both run to
\* their first await, then fixedPromise is awaited
CoinswitchFetchSwapQuote ==
    /\ plugin = "none"
    /\ \E req \in CsRequests :
          /\ request' = req
          /\ fx' = [PathIdle EXCEPT !.pc = "addresses", !.sent = AddressCalls(req)]
          /\ es' = [PathIdle EXCEPT !.pc = "addresses", !.sent = AddressCalls(req)]
    /\ plugin' = "coinswitch"
    /\ fsq' = [pc |-> "awaitFixed", result |-> Pending]
    /\ UNCHANGED <<nmVars, ssVars>>

\* fetchSwapQuote without its try/catch: the fixed path's rejection is the
\* call's
FetchSwapQuoteFixedSettled_NoFallback ==
    /\ plugin = "coinswitch"
    /\ fsq.pc = "awaitFixed"
    /\ fx.result.kind # "pending"
    /\ fsq' = [pc |-> "done", result |-> fx.result]
    /\ UNCHANGED <<plugin, nmVars, ssVars, request, fx, es>>

\* fetchSwapQuote racing the two promises: whichever settles first with a
\* quote is returned
FetchSwapQuoteFixedSettled_Race ==
    /\ plugin = "coinswitch"
    /\ fsq.pc = "awaitFixed"
    /\ \/ /\ fx.result.kind # "pending"
          /\ fsq' = IF fx.result.kind = "fulfilled"
                    THEN [pc |-> "done", result |-> fx.result]
                    ELSE [pc |-> "awaitEstimate", result |-> Pending]
       \/ /\ es.result.kind = "fulfilled"
          /\ fsq' = [pc |-> "done", result |-> es.result]
    /\ UNCHANGED <<plugin, nmVars, ssVars, request, fx, es>>

\* `await fixedPromise` resumes: return the fixed quote, or enter the catch
\* block and await estimatePromise
FetchSwapQuoteFixedSettled ==
    /\ plugin = "coinswitch"
    /\ fsq.pc = "awaitFixed"
    /\ fx.result.kind # "pending"
    /\ fsq' = IF fx.result.kind = "fulfilled"
              THEN [pc |-> "done", result |-> fx.result]
              ELSE [pc |-> "awaitEstimate", result |-> Pending]
    /\ UNCHANGED <<plugin, nmVars, ssVars, request, fx, es>>

\* `await estimatePromise` resumes inside the catch block
FetchSwapQuoteEstimateSettled ==
    /\ plugin = "coinswitch"
    /\ fsq.pc = "awaitEstimate"
    /\ es.result.kind # "pending"
    /\ fsq' = [pc |-> "done", result |-> es.result]
    /\ UNCHANGED <<plugin, nmVars, ssVars, request, fx, es>>

PathThrow(path, err) == [path EXCEPT !.pc = "done", !.result = err]

\* ---- getFixedQuote
\* lines 123-163: the addresses settle, the amount is converted and the offer
\* and the pair's limits are requested together
FixedAddressesReply ==
    /\ plugin = "coinswitch"
    /\ fx.pc = "addresses"
    /\ \E ok \in BOOLEAN :
          fx' = IF ~ok THEN PathThrow(fx, Rejected("WalletRejected", 0, "getReceiveAddress"))
                ELSE [fx EXCEPT !.pc = "quotes",
                         !.fromAddress = csGetAddress(request.fromCurrencyCode),
                         !.toAddress = csGetAddress(request.toCurrencyCode),
                         !.sent = fx.sent \o
                            <<Sent("v2/fixed/offer", QuoteParams(request)),
                              Sent("v2/fixed/pairs",
                                   <<QuoteParams(request).depositCoin,
                                     QuoteParams(request).destinationCoin>>)>>]
    /\ UNCHANGED <<plugin, nmVars, ssVars, request, fsq, es>>

\* lines 217-227
FixedOrderParams(req, fromAmount, toAddress, fromAddress) ==
    [depositCoin |-> toLowerCase(QuoteParams(req).depositCoin),
     destinationCoin |-> toLowerCase(QuoteParams(req).destinationCoin),
     depositCoinAmount |-> fromAmount, offerReferenceId |-> "offer1",
     destinationAddress |-> toAddress, refundAddress |-> fromAddress]

\* lines 165-227 once both calls have returned their bodies
FixedAfterQuotes(path, req, offer, pairs) ==
    LET c0 == Checked(offer, TRUE)
        c1 == Checked(pairs, TRUE)
        fromAmount == IF req.quoteFor = "from" THEN CsQuoteAmount(req) ELSE offer.v.a
        fromNativeAmount ==
            IF req.quoteFor = "from" THEN req.nativeAmount
            ELSE denominationToNative(fromWallet(req), offer.v.a, req.fromCurrencyCode)
        toNativeAmount ==
            IF req.quoteFor = "from"
            THEN denominationToNative(toWallet(req), offer.v.b, req.toCurrencyCode)
            ELSE req.nativeAmount
        nativeMin == denominationToNative(fromWallet(req), pairs.v.a, req.fromCurrencyCode)
        nativeMax == denominationToNative(fromWallet(req), pairs.v.b, req.fromCurrencyCode)
        limit == LimitError(fromNativeAmount, nativeMin, nativeMax)
        amounts == [path EXCEPT !.checked = c1, !.fromAmount = fromAmount,
                                !.fromNativeAmount = fromNativeAmount,
                                !.toNativeAmount = toNativeAmount]
        limits == [amounts EXCEPT !.nativeMin = nativeMin, !.nativeMax = nativeMax,
                                  !.limitMinDepositCoin = pairs.v.a,
                                  !.limitMaxDepositCoin = pairs.v.b,
                                  !.limitChecked = TRUE]
    IN IF c0.thrown.kind = "rejected"
       THEN PathThrow([path EXCEPT !.checked = c0], c0.thrown)
       ELSE IF c1.thrown.kind = "rejected"
       THEN PathThrow([path EXCEPT !.checked = c1], c1.thrown)
       ELSE IF pairs.data = "empty"
       THEN PathThrow(amounts, Rejected("TypeError", 0, "data[0]"))
       ELSE IF limit.kind = "rejected"
       THEN PathThrow(limits, limit)
       ELSE [limits EXCEPT !.pc = "order",
                !.sent = Append(path.sent,
                    Sent("v2/fixed/order",
                         FixedOrderParams(req, fromAmount, path.toAddress, path.fromAddress)))]

\* lines 151-227: Promise.all of the offer and pairs calls settles
FixedQuoteReplies ==
    /\ plugin = "coinswitch"
    /\ fx.pc = "quotes"
    /\ \/ \E net0, net1 \in CsNetKinds :
             \E e \in {CallError(net0), CallError(net1)} \ {""} :
                fx' = PathThrow(fx, Rejected(e, 0, "call"))
       \/ \E offer \in OfferBodies, pairs \in PairsBodies :
             fx' = FixedAfterQuotes(fx, request, offer, pairs)
    /\ UNCHANGED <<plugin, nmVars, ssVars, request, fsq, es>>

\* lines 233-257
FixedSpendInfo(req, path) ==
    [currencyCode |-> req.fromCurrencyCode,
     nativeAmount |-> path.fromNativeAmount,
     publicAddress |-> <<"exchange", "address">>,
     networkFeeOption |-> IF toUpperCase(req.fromCurrencyCode) = "BTC" THEN "high" ELSE "standard",
     swapData |-> [orderId |-> "order1", isEstimate |-> FALSE, payoutAddress |-> path.toAddress,
                   payoutCurrencyCode |-> req.toCurrencyCode,
                   payoutNativeAmount |-> path.toNativeAmount,
                   payoutWalletId |-> toWallet(req).id, refundAddress |-> path.fromAddress]]

\* FixedOrderReply with a retry: a failed order call is issued again
FixedOrderReply_Retry ==
    /\ plugin = "coinswitch"
    /\ fx.pc = "order"
    /\ \/ \E net \in CsNetKinds :
             /\ CallError(net) # ""
             /\ fx' = [fx EXCEPT !.sent = Append(fx.sent,
                          Sent("v2/fixed/order",
                               FixedOrderParams(request, fx.fromAmount, fx.toAddress,
                                                fx.fromAddress)))]
       \/ \E createOrder \in CsOrderBodies :
          LET c == Checked(createOrder, FALSE)
              seen == [fx EXCEPT !.checked = c]
          IN fx' = IF c.thrown.kind = "rejected" THEN PathThrow(seen, c.thrown)
                   ELSE IF createOrder.data # "ok"
                   THEN PathThrow(seen, Rejected("TypeError", 0, "quoteInfo"))
                   ELSE [seen EXCEPT !.pc = "makeSpend",
                            !.sent = Append(fx.sent, Sent("makeSpend", FixedSpendInfo(request, fx)))]
    /\ UNCHANGED <<plugin, nmVars, ssVars, request, fsq, es>>

\* lines 229-259: the order reply, then makeSpend is called
FixedOrderReply ==
    /\ plugin = "coinswitch"
    /\ fx.pc = "order"
    /\ \/ \E net \in CsNetKinds :
             /\ CallError(net) # ""
             /\ fx' = PathThrow(fx, Rejected(CallError(net), 0, "call"))
       \/ \E createOrder \in CsOrderBodies :
          LET c == Checked(createOrder, FALSE)
              seen == [fx EXCEPT !.checked = c]
          IN fx' = IF c.thrown.kind = "rejected" THEN PathThrow(seen, c.thrown)
                   ELSE IF createOrder.data # "ok"
                   THEN PathThrow(seen, Rejected("TypeError", 0, "quoteInfo"))
                   ELSE [seen EXCEPT !.pc = "makeSpend",
                            !.sent = Append(fx.sent, Sent("makeSpend", FixedSpendInfo(request, fx)))]
    /\ UNCHANGED <<plugin, nmVars, ssVars, request, fsq, es>>

fixedExpirationMs == 1000 * 60 * 5
expirationMs == 1000 * 60 * 15

\* lines 259-273: makeSpend settles and the quote is packaged
FixedMakeSpendReply ==
    /\ plugin = "coinswitch"
    /\ fx.pc = "makeSpend"
    /\ \E ok \in BOOLEAN :
          fx' = IF ~ok THEN PathThrow(fx, Rejected("WalletRejected", 0, "makeSpend"))
                ELSE [fx EXCEPT !.pc = "done", !.result =
                        Fulfilled(makeSwapPluginQuote(request, fx.fromNativeAmount,
                            fx.toNativeAmount, "tx", fx.toAddress, "coinswitch", FALSE,
                            <<"now", fixedExpirationMs>>, "order1"))]
    /\ UNCHANGED <<plugin, nmVars, ssVars, request, fsq, es>>

\* ---- getEstimate
\* lines 279-316: the addresses settle, the amount is converted and the
\* floating rate is requested
EstimateAddressesReply ==
    /\ plugin = "coinswitch"
    /\ es.pc = "addresses"
    /\ \E ok \in BOOLEAN :
          es' = IF ~ok THEN PathThrow(es, Rejected("WalletRejected", 0, "getReceiveAddress"))
                ELSE [es EXCEPT !.pc = "quotes",
                         !.fromAddress = csGetAddress(request.fromCurrencyCode),
                         !.toAddress = csGetAddress(request.toCurrencyCode),
                         !.sent = Append(es.sent,
                              Sent("v2/rate",
                                   <<toLowerCase(QuoteParams(request).depositCoin),
                                     toLowerCase(QuoteParams(request).destinationCoin)>>))]
    /\ UNCHANGED <<plugin, nmVars, ssVars, request, fsq, fx>>

\* lines 373-382
EstimateOrderParams(req, fromAmount, toAddress, fromAddress) ==
    [depositCoin |-> toLowerCase(QuoteParams(req).depositCoin),
     destinationCoin |-> toLowerCase(QuoteParams(req).destinationCoin),
     depositCoinAmount |-> fromAmount,
     destinationAddress |-> toAddress, refundAddress |-> fromAddress]

\* lines 318-382 once the rate call has returned its body
EstimateAfterRate(path, req, reply) ==
    LET c0 == Checked(reply, TRUE)
        minerFee == reply.v.minerFee
        rate == reply.v.rate
        quoteAmount == CsQuoteAmount(req)
        fromAmount == IF req.quoteFor = "from" THEN quoteAmount
                      ELSE (quoteAmount + minerFee) \div rate
        fromNativeAmount ==
            IF req.quoteFor = "from" THEN req.nativeAmount
            ELSE denominationToNative(fromWallet(req), fromAmount, req.fromCurrencyCode)
        toNativeAmount ==
            IF req.quoteFor = "from"
            THEN denominationToNative(toWallet(req), rate * quoteAmount - minerFee,
                                      req.toCurrencyCode)
            ELSE req.nativeAmount
        nativeMin == denominationToNative(fromWallet(req), reply.v.a, req.fromCurrencyCode)
        nativeMax == denominationToNative(fromWallet(req), reply.v.b, req.fromCurrencyCode)
        limit == LimitError(fromNativeAmount, nativeMin, nativeMax)
        limits == [path EXCEPT !.checked = c0, !.fromAmount = fromAmount,
                               !.fromNativeAmount = fromNativeAmount,
                               !.toNativeAmount = toNativeAmount,
                               !.nativeMin = nativeMin, !.nativeMax = nativeMax,
                               !.limitMinDepositCoin = reply.v.a,
                               !.limitMaxDepositCoin = reply.v.b,
                               !.limitChecked = TRUE]
    IN IF c0.thrown.kind = "rejected"
       THEN PathThrow([path EXCEPT !.checked = c0], c0.thrown)
       ELSE IF reply.data = "empty"
       THEN PathThrow([path EXCEPT !.checked = c0], Rejected("TypeError", 0, "minerFee"))
       ELSE IF limit.kind = "rejected"
       THEN PathThrow(limits, limit)
       ELSE [limits EXCEPT !.pc = "order",
                !.sent = Append(path.sent,
                    Sent("v2/order",
                         EstimateOrderParams(req, fromAmount, path.toAddress, path.fromAddress)))]

\* lines 308-382: the rate call settles
EstimateRateReply ==
    /\ plugin = "coinswitch"
    /\ es.pc = "quotes"
    /\ \/ \E net \in CsNetKinds :
             /\ CallError(net) # ""
             /\ es' = PathThrow(es, Rejected(CallError(net), 0, "call"))
       \/ \E reply \in RateReplyBodies :
             es' = EstimateAfterRate(es, request, reply)
    /\ UNCHANGED <<plugin, nmVars, ssVars, request, fsq, fx>>

\* lines 388-408
EstimateSpendInfo(req, path) ==
    [currencyCode |-> req.fromCurrencyCode,
     nativeAmount |-> path.fromNativeAmount,
     publicAddress |-> <<"exchange", "address">>,
     networkFeeOption |-> Undefined,
     swapData |-> [orderId |-> "order1", isEstimate |-> TRUE, payoutAddress |-> path.toAddress,
                   payoutCurrencyCode |-> req.toCurrencyCode,
                   payoutNativeAmount |-> path.toNativeAmount,
                   payoutWalletId |-> toWallet(req).id, refundAddress |-> path.fromAddress]]

\* lines 384-410: the order reply, then makeSpend is called
EstimateOrderReply ==
    /\ plugin = "coinswitch"
    /\ es.pc = "order"
    /\ \/ \E net \in CsNetKinds :
             /\ CallError(net) # ""
             /\ es' = PathThrow(es, Rejected(CallError(net), 0, "call"))
       \/ \E createOrder \in CsOrderBodies :
          LET c == Checked(createOrder, FALSE)
              seen == [es EXCEPT !.checked = c]
          IN es' = IF c.thrown.kind = "rejected" THEN PathThrow(seen, c.thrown)
                   ELSE IF createOrder.data # "ok"
                   THEN PathThrow(seen, Rejected("TypeError", 0, "quoteInfo"))
                   ELSE [seen EXCEPT !.pc = "makeSpend",
                            !.sent = Append(es.sent,
                                            Sent("makeSpend", EstimateSpendInfo(request, es)))]
    /\ UNCHANGED <<plugin, nmVars, ssVars, request, fsq, fx>>

\* lines 410-424: makeSpend settles and the quote is packaged
EstimateMakeSpendReply ==
    /\ plugin = "coinswitch"
    /\ es.pc = "makeSpend"
    /\ \E ok \in BOOLEAN :
          es' = IF ~ok THEN PathThrow(es, Rejected("WalletRejected", 0, "makeSpend"))
                ELSE [es EXCEPT !.pc = "done", !.result =
                        Fulfilled(makeSwapPluginQuote(request, es.fromNativeAmount,
                            es.toNativeAmount, "tx", es.toAddress, "coinswitch", TRUE,
                            <<"now", expirationMs>>, "order1"))]
    /\ UNCHANGED <<plugin, nmVars, ssVars, request, fsq, fx>>

Init ==
    /\ plugin = "none"
    /\ nm = NmIdle
    /\ nmRequests = <<>>
    /\ nmWarnings = <<>>
    /\ ss = SsIdle
    /\ ssSent = <<>>
    /\ request = Undefined
    /\ fsq = [pc |-> "idle", result |-> Pending]
    /\ fx = PathIdle
    /\ es = PathIdle

Next ==
    \/ NomicsFetchRates
    \/ NomicsReply
    \/ SideshiftFetchSwapQuote
    \/ SideshiftPermissionsReply
    \/ SideshiftAddressesReply
    \/ SideshiftPairsReply
    \/ SideshiftQuoteReply
    \/ SideshiftOrderReply
    \/ SideshiftMakeSpendReply
    \/ CoinswitchFetchSwapQuote
    \/ FetchSwapQuoteFixedSettled
    \/ FetchSwapQuoteEstimateSettled
    \/ FixedAddressesReply
    \/ FixedQuoteReplies
    \/ FixedOrderReply
    \/ FixedMakeSpendReply
    \/ EstimateAddressesReply
    \/ EstimateRateReply
    \/ EstimateOrderReply
    \/ EstimateMakeSpendReply

Spec == Init /\ [][Next]_vars

\* ------------------------------------------------------------------ claims
\* the operations named in a log of calls
Ops(sent) == {sent[i].op : i \in DOMAIN sent}

\* failures that come from the transport, the shape of a body or a wallet
EnvFailures == {"FetchRejected", "Error", "SyntaxError", "TypeError", "WalletRejected"}

\* C1: coinswitch fetchSwapQuote, once it has settled after getFixedQuote
\* rejected, has exactly the outcome getEstimate settled with (its quote or its
\* error); it never settles before getEstimate has.
C1_FallbackIsEstimateOutcome ==
    (plugin = "coinswitch" /\ fsq.pc = "done" /\ fx.result.kind = "rejected")
        => (es.result.kind # "pending" /\ fsq.result = es.result)

\* C1 witness: the fixed path failed its limit check and the estimate's quote
\* was returned
C1_Witness ==
    /\ fsq.pc = "done"
    /\ fx.result.error = "SwapBelowLimitError"
    /\ es.result.kind = "fulfilled"
    /\ fsq.result.quote.isEstimate

\* sideshift: the source amount of the request in native units
SsSourceNative ==
    IF request.quoteFor = "from" THEN request.nativeAmount
    ELSE denominationToNative(fromWallet(request), DepositAmount(request, ss.rate),
                              request.fromCurrencyCode)
SsNativeMin == denominationToNative(fromWallet(request), ss.rate.min, request.fromCurrencyCode)
SsNativeMax == denominationToNative(fromWallet(request), ss.rate.max, request.fromCurrencyCode)

\* C2 as stated, read the way most favourable to it (no transport, shape or
\* wallet failure, no error signalled by the exchange, both coinswitch paths
\* given the same minimum): a finished call whose source amount is below the
\* pair's native minimum has failed with SwapBelowLimitError carrying it.
C2_Original ==
    /\ (/\ plugin = "sideshift" /\ ss.pc = "done" /\ ss.rate.shape = "ok"
        /\ ss.quoteError = "" /\ ss.result.error \notin EnvFailures
        /\ SsSourceNative < SsNativeMin)
          => ss.result = Rejected("SwapBelowLimitError", SsNativeMin, "")
    /\ (/\ plugin = "coinswitch" /\ fsq.pc = "done" /\ request.quoteFor = "from"
        /\ fx.limitChecked /\ es.limitChecked /\ fx.nativeMin = es.nativeMin
        /\ request.nativeAmount < fx.nativeMin)
          => fsq.result = Rejected("SwapBelowLimitError", fx.nativeMin, "")

\* a coinswitch path stopped at its limit check with the below-limit error
\* carrying the native conversion of the minimum it was sent, before any order
PathBelow(path) ==
    /\ path.result = Rejected("SwapBelowLimitError",
                              denominationToNative(fromWallet(request), path.limitMinDepositCoin,
                                                   request.fromCurrencyCode), "")
    /\ Ops(path.sent) \cap {"v2/fixed/order", "v2/order", "makeSpend"} = {}

\* C2 amended: sideshift makes no comparison of its own: it fails with
\* SwapBelowLimitError exactly when the accepted fixed-quote reply carries the
\* message 'Amount too low', the error carrying rate.min in native units, and
\* then no order is posted.  In coinswitch, a path (getFixedQuote, getEstimate)
\* that reaches its limit check with fromNativeAmount below the native
\* conversion of the minimum of its own limits reply rejects with
\* SwapBelowLimitError carrying that minimum and creates no order, and
\* fetchSwapQuote fails with that error when it is getEstimate's and
\* getFixedQuote has rejected.
C2_BelowLimit ==
    /\ plugin = "sideshift" =>
          /\ (ss.result.error = "SwapBelowLimitError") <=> (ss.quoteError = "Amount too low")
          /\ ss.quoteError = "Amount too low" =>
                /\ ss.result = Rejected("SwapBelowLimitError", SsNativeMin, "")
                /\ "POST /orders" \notin Ops(ssSent)
    /\ plugin = "coinswitch" =>
          /\ \A path \in {fx, es} :
                (path.limitChecked /\ path.fromNativeAmount < path.nativeMin) => PathBelow(path)
          /\ (/\ fsq.pc = "done" /\ fx.result.kind = "rejected"
              /\ es.limitChecked /\ es.fromNativeAmount < es.nativeMin)
                => (fsq.result.error = "SwapBelowLimitError" /\ fsq.result = es.result)

\* C2 witness: the whole coinswitch call failed below the limit, the estimate
\* path having been given a different minimum than the fixed one
C2_Witness ==
    /\ plugin = "coinswitch" /\ fsq.pc = "done"
    /\ fsq.result.error = "SwapBelowLimitError"
    /\ fx.limitChecked /\ es.limitChecked
    /\ fx.nativeMin # es.nativeMin
    /\ fsq.result.amount = es.nativeMin

\* C3 as stated, read the way most favourable to it (as C2_Original, and the
\* amount not below the minimum): a finished call whose source amount is above
\* the pair's native maximum has failed with SwapAboveLimitError carrying it.
C3_Original ==
    /\ (/\ plugin = "sideshift" /\ ss.pc = "done" /\ ss.rate.shape = "ok"
        /\ ss.quoteError = "" /\ ss.result.error \notin EnvFailures
        /\ SsSourceNative > SsNativeMax)
          => ss.result = Rejected("SwapAboveLimitError", SsNativeMax, "")
    /\ (/\ plugin = "coinswitch" /\ fsq.pc = "done" /\ request.quoteFor = "from"
        /\ fx.limitChecked /\ es.limitChecked
        /\ fx.nativeMax = es.nativeMax /\ fx.nativeMin = es.nativeMin
        /\ request.nativeAmount >= fx.nativeMin
        /\ request.nativeAmount > fx.nativeMax)
          => fsq.result = Rejected("SwapAboveLimitError", fx.nativeMax, "")

PathAbove(path) ==
    /\ path.result = Rejected("SwapAboveLimitError",
                              denominationToNative(fromWallet(request), path.limitMaxDepositCoin,
                                                   request.fromCurrencyCode), "")
    /\ Ops(path.sent) \cap {"v2/fixed/order", "v2/order", "makeSpend"} = {}

\* C3 amended: sideshift fails with SwapAboveLimitError exactly when the
\* accepted fixed-quote reply carries the message 'Amount too high', the error
\* carrying rate.max in native units, and then no order is posted.  In
\* coinswitch, a path that reaches its limit check with fromNativeAmount not
\* below its native minimum and above its native maximum rejects with
\* SwapAboveLimitError carrying that maximum and creates no order, and
\* fetchSwapQuote fails with that error when it is getEstimate's and
\* getFixedQuote has rejected.
C3_AboveLimit ==
    /\ plugin = "sideshift" =>
          /\ (ss.result.error = "SwapAboveLimitError") <=> (ss.quoteError = "Amount too high")
          /\ ss.quoteError = "Amount too high" =>
                /\ ss.result = Rejected("SwapAboveLimitError", SsNativeMax, "")
                /\ "POST /orders" \notin Ops(ssSent)
    /\ plugin = "coinswitch" =>
          /\ \A path \in {fx, es} :
                (/\ path.limitChecked /\ path.fromNativeAmount >= path.nativeMin
                 /\ path.fromNativeAmount > path.nativeMax) => PathAbove(path)
          /\ (/\ fsq.pc = "done" /\ fx.result.kind = "rejected"
              /\ es.limitChecked /\ es.fromNativeAmount >= es.nativeMin
              /\ es.fromNativeAmount > es.nativeMax)
                => (fsq.result.error = "SwapAboveLimitError" /\ fsq.result = es.result)

\* C3 witness: the whole coinswitch call failed above the limit, minimum and
\* maximum being different
C3_Witness ==
    /\ plugin = "coinswitch" /\ fsq.pc = "done"
    /\ fsq.result.error = "SwapAboveLimitError"
    /\ es.limitChecked /\ es.nativeMin < es.nativeMax
    /\ fsq.result.amount = es.nativeMax

\* C4: sideshift: when the accepted permissions reply has createOrder or
\* createQuote false, the call has failed with SwapPermissionError
\* ('geoRestriction') and GET /permissions is the only call it ever made; and
\* any other call (receive address, pair rate, quote, order, makeSpend) is made
\* only after a permissions reply was accepted with both flags true.
C4_PermissionsFirst ==
    plugin = "sideshift" =>
        /\ (ss.permissions.createOrder = "false" \/ ss.permissions.createQuote = "false")
              => /\ ss.pc = "done"
                 /\ ss.result = Rejected("SwapPermissionError", 0, "geoRestriction")
                 /\ Ops(ssSent) = {"GET /permissions"}
        /\ Ops(ssSent) # {"GET /permissions"}
              => (ss.permissions.createOrder = "true" /\ ss.permissions.createQuote = "true")
        /\ ssSent[1].op = "GET /permissions"

\* C4 witness: only one of the two flags was false
C4_Witness ==
    /\ plugin = "sideshift" /\ ss.pc = "done"
    /\ ss.permissions.createOrder = "true" /\ ss.permissions.createQuote = "false"

\* C5 as stated: sideshift: once the accepted fixed-quote reply carried an
\* error, the call has failed, no order was posted and makeSpend was not
\* called; 'Amount too low' gives SwapBelowLimitError, 'Amount too high'
\* SwapAboveLimitError, any other message an error of neither class.
C5_QuoteErrorStopsTheCall ==
    (plugin = "sideshift" /\ ss.quoteError # "") =>
        /\ ss.pc = "done" /\ ss.result.kind = "rejected"
        /\ Ops(ssSent) \cap {"POST /orders", "makeSpend"} = {}
        /\ ss.quoteError = "Amount too low" => ss.result.error = "SwapBelowLimitError"
        /\ ss.quoteError = "Amount too high" => ss.result.error = "SwapAboveLimitError"
        /\ ss.quoteError \notin {"Amount too low", "Amount too high"}
              => ss.result.error \notin {"SwapBelowLimitError", "SwapAboveLimitError"}

\* C5 witness of the divergence: an unrecognised error message, and the order
\* was posted all the same
C5_Witness ==
    /\ plugin = "sideshift"
    /\ ss.quoteError = "Pair disabled"
    /\ "POST /orders" \in Ops(ssSent)

\* a code carries the 'iso:' marker
HasIsoMarker(code) == \E i \in 1..(Len(code) - 1) : code[i] = "iso" /\ code[i + 1] = ":"
\* exactly one side of the pair is fiat-tagged
Mixed(pair) == HasIsoMarker(pair.fromCurrency) # HasIsoMarker(pair.toCurrency)

\* C6: nomics fetchRates: the output pairs are, in the order of the input,
\* input pairs with exactly one side fiat-tagged; a pair with both sides or
\* neither side fiat-tagged is never in the output and is never requested.
C6_OnlyMixedPairs ==
    plugin = "nomics" =>
        /\ \E f \in [DOMAIN nm.pairs -> DOMAIN nm.pairsHint] :
              /\ \A a, b \in DOMAIN nm.pairs : a < b => f[a] < f[b]
              /\ \A k \in DOMAIN nm.pairs :
                    /\ nm.pairs[k].fromCurrency = nm.pairsHint[f[k]].fromCurrency
                    /\ nm.pairs[k].toCurrency = nm.pairsHint[f[k]].toCurrency
                    /\ Mixed(nm.pairsHint[f[k]])
                    /\ f[k] < nm.i
        /\ \A k \in DOMAIN nmRequests : Mixed(nm.pairsHint[nmRequests[k].index])
        /\ \A k \in DOMAIN nm.pairsHint :
              ~Mixed(nm.pairsHint[k]) => \A r \in DOMAIN nmRequests : nmRequests[r].index # k

\* C6 witness: a skipped pair, then a mixed pair that was priced
C6_Witness ==
    /\ plugin = "nomics" /\ nm.pc = "done"
    /\ Len(nm.pairsHint) = 2
    /\ ~Mixed(nm.pairsHint[1]) /\ Mixed(nm.pairsHint[2])
    /\ Len(nm.pairs) = 1 /\ Len(nmRequests) = 1

\* a reply that yields a rate: a parsed array of objects with string prices,
\* not empty, on a status other than 429
YieldsRate(reply) ==
    /\ ~reply.rejected /\ reply.status # 429
    /\ reply.body.kind = "array"
    /\ Len(reply.body.elems) >= 1
    /\ \A k \in DOMAIN reply.body.elems : reply.body.elems[k].price # NoString
RateLimited(reply) == ~reply.rejected /\ reply.status = 429

RECURSIVE WarnedIndices(_)
WarnedIndices(replies) ==
    IF replies = <<>> THEN <<>>
    ELSE LET head == replies[1]
         IN (IF ~RateLimited(head.reply) /\ ~YieldsRate(head.reply)
             THEN <<head.index>> ELSE <<>>) \o WarnedIndices(Tail(replies))

\* C7: nomics fetchRates never throws and, once over, has returned; a pair
\* answered with HTTP 429 is left out with no warning, a pair whose reply
\* fails otherwise (rejected fetch, body that does not parse, wrong shape, empty
\* array) is left out after exactly one warning, every other requested pair is
\* in the output, and no pair of the list is requested twice.
C7_NeverFails ==
    plugin = "nomics" =>
        /\ nm.result # "threw"
        /\ nm.pc = "done" => (nm.result = "returned" /\ Len(nm.replies) = Len(nmRequests))
        /\ nmWarnings = WarnedIndices(nm.replies)
        /\ Len(nm.pairs) =
              Cardinality({k \in DOMAIN nm.replies : YieldsRate(nm.replies[k].reply)})
        /\ \A a, b \in DOMAIN nmRequests : a < b => nmRequests[a].index < nmRequests[b].index
        /\ \A k \in DOMAIN nm.replies : nm.replies[k].index = nmRequests[k].index

\* C7 witness: a 429 and a rejected fetch in one call, which returned an empty
\* list after one warning
C7_Witness ==
    /\ plugin = "nomics" /\ nm.pc = "done" /\ nm.result = "returned"
    /\ Len(nm.replies) = 2
    /\ RateLimited(nm.replies[1].reply)
    /\ nm.replies[2].reply.rejected
    /\ nmWarnings = <<2>>
    /\ nm.pairs = <<>>

\* the codes sideshift expects
ExpectedSafeCode ==
    [c \in SwapCodes |->
        CASE c = "BTC" -> "btc" [] c = "ETH" -> "eth" [] c = "DGB" -> "dgb"
          [] c = "USDT" -> "usdtErc20"]

\* C8: sideshift: the codes in the pair-rate path and in depositMethod and
\* settleMethod of the fixed-quote request are the table entry for a code that
\* has one (USDT -> usdtErc20) and the lower-cased code otherwise.
C8_Transcription ==
    plugin = "sideshift" =>
        \A k \in DOMAIN ssSent :
            /\ ssSent[k].op = "GET /pairs" =>
                  ssSent[k].arg = <<ExpectedSafeCode[request.fromCurrencyCode],
                                    ExpectedSafeCode[request.toCurrencyCode]>>
            /\ ssSent[k].op = "POST /quotes" =>
                  /\ ssSent[k].arg.depositMethod = ExpectedSafeCode[request.fromCurrencyCode]
                  /\ ssSent[k].arg.settleMethod = ExpectedSafeCode[request.toCurrencyCode]

\* C8 witness: a fixed quote was requested for a swap from USDT
C8_Witness ==
    /\ plugin = "sideshift"
    /\ request.fromCurrencyCode = "USDT" /\ request.toCurrencyCode = "BTC"
    /\ "POST /quotes" \in Ops(ssSent)

\* C9: coinswitch fetchSwapQuote has started both paths whenever it awaits;
\* it awaits the estimate only once the fixed path has rejected; when the fixed
\* path fulfils, its quote (isEstimate false) is the outcome, whatever the
\* estimate path does then or later; an outcome that is not the fixed path's,
\* an estimate quote in particular, is there only if the fixed path rejected.
C9_FixedFirst ==
    plugin = "coinswitch" =>
        /\ fx.pc # "idle" /\ es.pc # "idle"
        /\ fsq.pc = "awaitEstimate" => fx.result.kind = "rejected"
        /\ fsq.pc = "done" => fx.result.kind # "pending"
        /\ (fsq.pc = "done" /\ fx.result.kind = "fulfilled") =>
              (fsq.result = fx.result /\ ~fsq.result.quote.isEstimate)
        /\ (fsq.result.kind = "fulfilled" /\ fsq.result.quote.isEstimate) =>
              fx.result.kind = "rejected"

\* C9 witness: the fixed quote was returned while the estimate path was still
\* running
C9_Witness ==
    /\ plugin = "coinswitch" /\ fsq.pc = "done"
    /\ fsq.result.kind = "fulfilled" /\ fsq.result = fx.result
    /\ es.result.kind = "pending" /\ es.pc = "order"

\* the data payload of a checked reply is absent
DataAbsent(c) == c.data \in {Undefined, Null}

\* C10 as stated: each checkReply call on a reply whose success flag is false
\* threw the generic error with the reply's code; it threw SwapCurrencyError
\* exactly when a request was supplied and data was absent; it returned exactly
\* when success was true and (no request was supplied or data was present).
C10_Original ==
    plugin = "coinswitch" =>
        \A path \in {fx, es} :
            path.checked.called =>
                LET c == path.checked
                IN /\ c.success = "false" => c.thrown = Rejected("Error", 0, c.code)
                   /\ (c.thrown.error = "SwapCurrencyError") <=> (c.hasRequest /\ DataAbsent(c))
                   /\ (c.thrown.kind = "pending") <=>
                         (c.success = "true" /\ (~c.hasRequest \/ ~DataAbsent(c)))

\* C10 amended: each checkReply call on a reply whose success flag is false
\* threw the generic error with the reply's code, unless a request was
\* supplied and data was absent (that test comes first and throws
\* SwapCurrencyError); it threw SwapCurrencyError exactly when a request was
\* supplied and data was absent; it returned exactly when success was true and
\* (no request was supplied or data was present).
C10_CheckReply ==
    plugin = "coinswitch" =>
        \A path \in {fx, es} :
            path.checked.called =>
                LET c == path.checked
                IN /\ (c.success = "false" /\ ~(c.hasRequest /\ DataAbsent(c)))
                         => c.thrown = Rejected("Error", 0, c.code)
                   /\ (c.thrown.error = "SwapCurrencyError") <=> (c.hasRequest /\ DataAbsent(c))
                   /\ (c.thrown.kind = "pending") <=>
                         (c.success = "true" /\ (~c.hasRequest \/ ~DataAbsent(c)))

\* C10 witness: a reply with success false and no data, checked with a
\* request, threw SwapCurrencyError
C10_Witness ==
    /\ plugin = "coinswitch"
    /\ fx.checked.called /\ fx.checked.hasRequest
    /\ fx.checked.success = "false" /\ DataAbsent(fx.checked)
    /\ fx.checked.thrown.error = "SwapCurrencyError"

\* the ISO identifier of a fiat-tagged code: what follows the 'iso:' marker
IsoIdentifier(code) ==
    LET i == CHOOSE k \in 1..(Len(code) - 1) : code[k] = "iso" /\ code[k + 1] = ":"
    IN SubSeq(code, i + 2, Len(code))
\* the crypto and the fiat side of a mixed pair
CryptoSide(pair) ==
    IF HasIsoMarker(pair.fromCurrency) THEN pair.toCurrency ELSE pair.fromCurrency
FiatSide(pair) ==
    IF HasIsoMarker(pair.fromCurrency) THEN pair.fromCurrency ELSE pair.toCurrency

\* C11 as stated: every ticker request nomics makes, for a mixed pair in
\* either orientation, asks for the pair's crypto code (ids) converted into the
\* ISO identifier of the pair's fiat-tagged code (convert).
C11_RequestAsksCryptoInFiat ==
    plugin = "nomics" =>
        \A k \in DOMAIN nmRequests :
            LET pair == nm.pairsHint[nmRequests[k].index]
            IN /\ nmRequests[k].req.ids = CryptoSide(pair)
               /\ nmRequests[k].req.convert = IsoIdentifier(FiatSide(pair))

\* C11 witness of the divergence: a pair with the fiat code as fromCurrency was
\* requested with the fiat-tagged code as ids and the word undefined as convert
C11_Witness ==
    /\ plugin = "nomics"
    /\ \E k \in DOMAIN nmRequests :
          /\ nm.pairsHint[nmRequests[k].index] = [fromCurrency |-> isoUSD, toCurrency |-> BTC]
          /\ nmRequests[k].req = [ids |-> isoUSD, convert |-> <<"undefined">>]

\* the native amounts the two wallets make of the accepted order
SsDepositNative ==
    denominationToNative(fromWallet(request), ss.order.depositAmount, request.fromCurrencyCode)
SsSettleNative ==
    denominationToNative(toWallet(request), ss.order.settleAmount, request.toCurrencyCode)
\* the spend request handed to makeSpend, once made
SsSpendSent ==
    {ssSent[k].arg : k \in {j \in DOMAIN ssSent : ssSent[j].op = "makeSpend"}}

\* C12 as stated: once sideshift's order is accepted, the deposit amount is
\* converted by the source wallet with the source code, the settle amount by
\* the destination wallet with the destination code, and the quote's
\* toNativeAmount and swapData.payoutNativeAmount are the destination wallet's
\* conversion.
C12_SettleConvertedByDestination ==
    (plugin = "sideshift" /\ ss.order # NoOrder) =>
        /\ ss.depositConvertedBy = fromWallet(request).id
        /\ ss.amountExpectedFromNative = SsDepositNative
        /\ ss.settleConvertedBy = toWallet(request).id
        /\ ss.amountExpectedToNative = SsSettleNative
        /\ \A spendInfo \in SsSpendSent : spendInfo.swapData.payoutNativeAmount = SsSettleNative
        /\ ss.result.kind = "fulfilled" => ss.result.quote.toNativeAmount = SsSettleNative

\* C12 witness of the divergence: a quote from BTC to ETH was returned whose
\* toNativeAmount is the source wallet's conversion of the settle amount and
\* not the destination wallet's
C12_Witness ==
    /\ plugin = "sideshift"
    /\ request.fromCurrencyCode = "BTC" /\ request.toCurrencyCode = "ETH"
    /\ ss.result.kind = "fulfilled"
    /\ ss.settleConvertedBy = fromWallet(request).id
    /\ ss.settleConvertedBy # toWallet(request).id
    /\ ss.result.quote.toNativeAmount # SsSettleNative

\* a request named op is issued by the step from log old to log new
Issued(old, new, op) == \E k \in DOMAIN new : k > Len(old) /\ new[k].op = op
\* how often a request named op was issued
Count(sent, op) == Cardinality({k \in DOMAIN sent : sent[k].op = op})
\* a step only adds to a log
Grows(old, new) == Len(new) >= Len(old) /\ SubSeq(new, 1, Len(old)) = old

\* one step of a coinswitch path, from p to q: the order is requested by the
\* step that receives the quote replies, accepts them with checkReply and finds
\* the amount within the limits; makeSpend is called by the step that receives
\* the order reply and accepts it; the quote is returned by the step that
\* receives makeSpend's fulfilment; nothing is issued twice or after the end
PathSequential(p, q, quoteOps, orderOp) ==
    /\ Grows(p.sent, q.sent)
    /\ p.pc = "done" => q.sent = p.sent
    /\ Count(q.sent, orderOp) <= 1 /\ Count(q.sent, "makeSpend") <= 1
    /\ \A op \in quoteOps : Count(q.sent, op) <= 1
    /\ Issued(p.sent, q.sent, orderOp) =>
          /\ p.pc = "quotes" /\ quoteOps \subseteq Ops(p.sent)
          /\ q.checked.called /\ q.checked.hasRequest
          /\ q.checked.thrown.kind # "rejected"
          /\ q.limitChecked
          /\ ~(q.fromNativeAmount < q.nativeMin) /\ ~(q.fromNativeAmount > q.nativeMax)
          /\ q.result.kind = "pending"
    /\ Issued(p.sent, q.sent, "makeSpend") =>
          /\ p.pc = "order" /\ orderOp \in Ops(p.sent)
          /\ q.checked.called /\ ~q.checked.hasRequest
          /\ q.checked.thrown.kind # "rejected" /\ q.checked.data = "ok"
          /\ q.result.kind = "pending"
    /\ (q.result.kind = "fulfilled" /\ p.result.kind # "fulfilled") =>
          /\ p.pc = "makeSpend" /\ "makeSpend" \in Ops(p.sent)
          /\ q.sent = p.sent

\* the same for a step of sideshift's fetchSwapQuote: validation of the quote
\* reply is asFixedQuote (the order carries the quote's id) and checkQuoteError
\* not throwing; validation of the order reply is asOrder
SideshiftSequential ==
    /\ Grows(ssSent, ssSent')
    /\ ss.pc = "done" => ssSent' = ssSent
    /\ \A op \in {"POST /quotes", "POST /orders", "makeSpend"} : Count(ssSent', op) <= 1
    /\ Issued(ssSent, ssSent', "POST /orders") =>
          /\ ss.pc = "quotes" /\ "POST /quotes" \in Ops(ssSent)
          /\ ssSent'[Len(ssSent')].arg.quoteId # Undefined
          /\ ss'.quoteError # "" =>
                checkQuoteError(ss.rate, request, ss'.quoteError).kind # "rejected"
          /\ ss'.result.kind = "pending"
    /\ Issued(ssSent, ssSent', "makeSpend") =>
          /\ ss.pc = "orders" /\ "POST /orders" \in Ops(ssSent)
          /\ ss'.order # NoOrder /\ asOrderOk(ss'.order)
          /\ ss'.result.kind = "pending"
    /\ (ss'.result.kind = "fulfilled" /\ ss.result.kind # "fulfilled") =>
          /\ ss.pc = "makeSpend" /\ "makeSpend" \in Ops(ssSent)
          /\ ssSent' = ssSent

\* C13: in every swap path (sideshift fetchSwapQuote, coinswitch getFixedQuote
\* and getEstimate) the order is requested only by the step that has received
\* and validated the quote or rate reply (limit check included in coinswitch),
\* makeSpend is called only by the step that has received and validated the
\* order reply, each of them is issued at most once, and a quote is returned
\* only by the step that receives makeSpend's fulfilment.
C13_StrictlySequential ==
    [][/\ SideshiftSequential
       /\ PathSequential(fx, fx', {"v2/fixed/offer", "v2/fixed/pairs"}, "v2/fixed/order")
       /\ PathSequential(es, es', {"v2/rate"}, "v2/order")]_vars

\* C13 witness: both coinswitch paths have run to a quote, each having issued
\* its quote request, its order and its makeSpend
C13_Witness ==
    /\ plugin = "coinswitch"
    /\ fx.result.kind = "fulfilled" /\ es.result.kind = "fulfilled"
    /\ Ops(fx.sent) = {"getReceiveAddress", "v2/fixed/offer", "v2/fixed/pairs",
                       "v2/fixed/order", "makeSpend"}
    /\ Ops(es.sent) = {"getReceiveAddress", "v2/rate", "v2/order", "makeSpend"}
====
